---- MODULE Spec2Model ----
(***************************************************************************)
(* video_to_audio.py: mirror a directory tree into "<name>_audio" and      *)
(* extract the audio of every video file with ffmpeg.                      *)
(*                                                                         *)
(* The file system is a set of directories (absolute paths, sequences of   *)
(* component names) and a set of regular files.  A pathlib path is a       *)
(* record [abs, parts]; a file name is the sequence of its dot-separated   *)
(* pieces, so <<"movie", "final", "mkv">> is movie.final.mkv and           *)
(* <<"", "mp4">> is the hidden file .mp4.                                  *)
(***************************************************************************)
EXTENDS Integers, Sequences, FiniteSets, TLC

VARIABLES
    dirs,                    \* directories on disk (absolute paths)
    files,                   \* regular files on disk: [dir, name]
    argv,                    \* sys.argv
    cwd,                     \* the process's working directory
    clock,                   \* local time, in ticks
    pc,                      \* position of main
    exit_status,             \* process exit status, -1 while running
    output_dir,              \* main's output_dir (a path), NoPath before it is set
    stack,                   \* os.walk's stack of directories still to visit
    dirpath,                 \* process_videos: the directory os.walk yielded last
    filenames,               \* process_videos: files of dirpath not yet looped over
    total_videos,
    successful_conversions,
    log,                     \* "Converting: video_path -> audio_path", with the result
    outcome,                 \* what the last subprocess.run did
    made,                    \* directories recreate_directory_structure created
    pre_dirs,                \* dirs when the current run started
    runs                     \* one record per call of create_output_directory

vars == <<dirs, files, argv, cwd, clock, pc, exit_status, output_dir, stack, dirpath,
          filenames, total_videos, successful_conversions, log, outcome, made,
          pre_dirs, runs>>

----------------------------------------------------------------------------
(* Bounds of the model *)

\* subdirectories of the source tree
MaxDirs == 2
\* files in the source tree
MaxFiles == 2
\* last clock tick
MaxClock == 2
\* runs of the program on the same disk
MaxRuns == 2
\* components of the longest path the system accepts
MaxPath == 6
\* subdirectories, when the program runs more than once
MaxRunDirs == 0
\* files, when the program runs more than once
MaxRunFiles == 1

(* strftime("%Y%m%d_%H%M%S") keeps whole seconds of a clock that has          *)
(* microseconds: a second is TicksPerSecond clock ticks.                   *)
TicksPerSecond == 2

----------------------------------------------------------------------------
(* The source tree *)

proj == <<"w", "proj">>

SubdirUniverse == {<<"a">>, <<"a", "b">>, <<"a", "b", "c">>}

Front(s) == SubSeq(s, 1, Len(s) - 1)

PrefixClosed(T) == \A d \in T : Len(d) > 1 => Front(d) \in T

Trees == {T \in SUBSET SubdirUniverse : PrefixClosed(T)}

FileNames ==
    { <<"x", "mp4">>, <<"x", "MKV">>, <<"movie", "final", "mkv">>,
      <<"note", "txt">>, <<"", "mp4">> }

(* File names for a tree that holds one file: every allow-listed           *)
(* extension in lower and upper case, extensions that are not listed, and  *)
(* names where the last dot is not where the extension starts.             *)
ProbeExtensions ==
    { "mp4", "MP4", "Mp4", "avi", "AVI", "mov", "MOV", "mkv", "MKV", "flv", "FLV",
      "wmv", "WMV", "webm", "WEBM", "WebM", "mp3", "MP3", "txt", "TXT", "jpg",
      "m4v", "mpeg", "mp", "mp4x", "" }

ProbeNames ==
    {<<"v", e>> : e \in ProbeExtensions} \cup {<<"", e>> : e \in ProbeExtensions}
        \cup {<<"v", "mp4", e>> : e \in ProbeExtensions} \cup {<<"v">>, <<"mp4">>}

(* The command lines, each with the directory it is typed in: the source   *)
(* tree /w/proj by name from /w, as "." from inside it, and as ".." from   *)
(* its subdirectory a; a name that is no directory; too few and too many   *)
(* arguments.                                                              *)
Invocations ==
    { [cwd |-> <<"w">>, argv |-> <<"video_to_audio.py">>],
      [cwd |-> <<"w">>, argv |-> <<"video_to_audio.py", "proj", "proj">>],
      [cwd |-> <<"w">>, argv |-> <<"video_to_audio.py", "nope">>],
      [cwd |-> <<"w">>, argv |-> <<"video_to_audio.py", "proj">>],
      [cwd |-> proj, argv |-> <<"video_to_audio.py", ".">>],
      [cwd |-> proj \o <<"a">>, argv |-> <<"video_to_audio.py", "..">>] }

----------------------------------------------------------------------------
(* pathlib *)

NoPath == [abs |-> FALSE, parts |-> <<"?">>]

Path(s) ==
    CASE s = "." -> [abs |-> FALSE, parts |-> <<>>]
      [] s = "/" -> [abs |-> TRUE, parts |-> <<>>]
      [] OTHER   -> [abs |-> FALSE, parts |-> <<s>>]

name(p) == IF p.parts = <<>> THEN "" ELSE p.parts[Len(p.parts)]

parent(p) == IF p.parts = <<>> THEN p ELSE [p EXCEPT !.parts = Front(p.parts)]

Div(p, s) == [p EXCEPT !.parts = Append(p.parts, s)]

DivPath(p, q) == IF q.abs THEN q ELSE [p EXCEPT !.parts = p.parts \o q.parts]

relative_to(p, base) ==
    [abs |-> FALSE, parts |-> SubSeq(p.parts, Len(base.parts) + 1, Len(p.parts))]

(* Path.suffix and Path.stem: the last dot counts unless it is the first   *)
(* or the last character of the name.                                      *)
HasSuffix(n) ==
    /\ Len(n) >= 2
    /\ n[Len(n)] # ""
    /\ ~(Len(n) = 2 /\ n[1] = "")

suffix(n) == IF HasSuffix(n) THEN "." \o n[Len(n)] ELSE ""

stem(n) == IF HasSuffix(n) THEN Front(n) ELSE n

(* str.lower on the extensions the model uses *)
lower(s) ==
    CASE s = ".MP4"  -> ".mp4"
      [] s = ".Mp4"  -> ".mp4"
      [] s = ".AVI"  -> ".avi"
      [] s = ".MOV"  -> ".mov"
      [] s = ".MKV"  -> ".mkv"
      [] s = ".FLV"  -> ".flv"
      [] s = ".WMV"  -> ".wmv"
      [] s = ".WEBM" -> ".webm"
      [] s = ".WebM" -> ".webm"
      [] s = ".MP3"  -> ".mp3"
      [] s = ".TXT"  -> ".txt"
      [] OTHER       -> s

VIDEO_EXTENSIONS == {".mp4", ".avi", ".mov", ".mkv", ".flv", ".wmv", ".webm"}

----------------------------------------------------------------------------
(* The operating system.  The disk holds plain directories and regular     *)
(* files; the program removes nothing, and nothing else changes the disk   *)
(* while it runs.                                                          *)

RECURSIVE Walk(_, _)
Walk(at, parts) ==
    IF parts = <<>> THEN at
    ELSE IF Head(parts) = ".."
         THEN Walk(IF at = <<>> THEN at ELSE Front(at), Tail(parts))
         ELSE Walk(Append(at, Head(parts)), Tail(parts))

Resolve(p) == Walk(IF p.abs THEN <<>> ELSE cwd, p.parts)

exists(p) == Resolve(p) \in dirs

isdir(p) == Resolve(p) \in dirs

(* Path.mkdir(exist_ok=True): "exists", "created", or "error" when the     *)
(* parent is missing, the path is longer than the system allows            *)
(* (ENAMETOOLONG), or the system call fails for another reason (oserr).    *)
mkdir(p, oserr) ==
    IF Resolve(p) \in dirs THEN "exists"
    ELSE IF oserr \/ Front(Resolve(p)) \notin dirs \/ Len(Resolve(p)) > MaxPath THEN "error"
    ELSE "created"

(* os.scandir: the subdirectories and the files of a directory, now. *)
ScanDirs(p) == {d[Len(d)] : d \in {e \in dirs : e # <<>> /\ Front(e) = Resolve(p)}}

ScanFiles(p) == {f.name : f \in {g \in files : g.dir = Resolve(p)}}

Orders(S) == {s \in [1..Cardinality(S) -> S] : \A i, j \in 1..Cardinality(S) : s[i] = s[j] => i = j}

(* os.walk's push of the subdirectories it just listed, in listing order *)
Push(top, order, rest) == [i \in 1..Len(order) |-> Div(top, order[i])] \o rest

----------------------------------------------------------------------------
(* Initial states: a source tree /w/proj of at most MaxDirs subdirectories *)
(* and MaxFiles files, a command line, and possibly an output directory    *)
(* left by an earlier use of the program.                                  *)

RECURSIVE SubsetsUpTo(_, _)
SubsetsUpTo(S, k) ==
    IF k = 0 THEN {{}}
    ELSE LET P == SubsetsUpTo(S, k - 1) IN P \cup {p \cup {x} : p \in P, x \in S}

FilesIn(T) == {[dir |-> proj \o d, name |-> n] : d \in T \cup {<<>>}, n \in FileNames}

source_dir == argv[2]

source_path == Path(source_dir)

base_name(src) == name(Path(src)) \o "_audio"

(* strftime("%Y%m%d_%H%M"): the seconds left out of the format *)
strftime_Minutes(now) == ToString(now \div (60 * TicksPerSecond))

strftime(now) == ToString(now \div TicksPerSecond)

InitDisk(maxdirs, maxfiles, leftovers, invocations) ==
    \E T \in Trees, inv \in invocations, pre \in leftovers :
        \E F \in SubsetsUpTo(FilesIn(T), maxfiles) :
            LET tree == {<<>>, <<"w">>, proj} \cup {proj \o d : d \in T}
                out  == Div(parent(Path(inv.argv[2])), base_name(inv.argv[2]))
                left == IF pre /\ Len(inv.argv) = 2
                        THEN {Walk(inv.cwd, out.parts)}
                        ELSE {}
            IN  /\ Cardinality(T) <= maxdirs
                /\ inv.cwd \in tree
                /\ dirs = tree \cup left
                /\ files = F
                /\ argv = inv.argv
                /\ cwd = inv.cwd
                /\ pre_dirs = tree \cup left

(* /w/proj holding a single file, converted by name from /w *)
InitProbe ==
    \E n \in ProbeNames :
        /\ dirs = {<<>>, <<"w">>, proj}
        /\ files = {[dir |-> proj, name |-> n]}
        /\ argv = <<"video_to_audio.py", "proj">>
        /\ cwd = <<"w">>
        /\ pre_dirs = {<<>>, <<"w">>, proj}

InitRun ==
    /\ clock = 0
    /\ pc = "main"
    /\ exit_status = -1
    /\ output_dir = NoPath
    /\ stack = <<>>
    /\ dirpath = NoPath
    /\ filenames = {}
    /\ total_videos = 0
    /\ successful_conversions = 0
    /\ log = <<>>
    /\ outcome = "none"
    /\ made = 0
    /\ runs = <<>>

Init ==
    /\ InitDisk(MaxDirs, MaxFiles, {FALSE}, Invocations) \/ InitProbe
    /\ InitRun

(* The same for the program run more than once: smaller trees, possibly    *)
(* "<name>_audio" on disk already, and every command line but ".", whose   *)
(* later runs walk the whole output trees of the earlier ones.             *)
InitRuns ==
    /\ InitDisk(MaxRunDirs, MaxRunFiles, BOOLEAN,
                {inv \in Invocations : inv.argv # <<"video_to_audio.py", ".">>})
    /\ InitRun

----------------------------------------------------------------------------
(* main, lines 131-142: the argument checks *)

Exit(status) ==
    /\ pc' = "exit"
    /\ exit_status' = status

Main ==
    /\ pc = "main"
    /\ IF Len(argv) # 2
       THEN Exit(1)
       ELSE IF ~isdir(Path(argv[2]))
            THEN Exit(1)
            ELSE pc' = "create_output_directory" /\ exit_status' = exit_status
    /\ UNCHANGED <<dirs, files, argv, cwd, clock, output_dir, stack, dirpath, filenames,
                   total_videos, successful_conversions, log, outcome, made,
                   pre_dirs, runs>>

(* create_output_directory, lines 28-38: the directory it chooses *)
ChooseOutputDir(src, now) ==
    LET parent_dir == parent(Path(src))
        output     == Div(parent_dir, base_name(src))
    IN  IF exists(output)
        THEN Div(parent_dir, base_name(src) \o "_" \o strftime(now))
        ELSE output

Stamped(src) == exists(Div(parent(Path(src)), base_name(src)))

(* create_output_directory as main calls it; an OSError of mkdir is not    *)
(* caught anywhere and ends the process with status 1.                     *)
CreateOutputDirectory(oserr) ==
    /\ pc = "create_output_directory"
    /\ LET out == ChooseOutputDir(source_dir, clock)
           r   == mkdir(out, oserr)
       IN  /\ runs' = Append(runs, [root    |-> Resolve(out),
                                    stamped |-> Stamped(source_dir),
                                    second  |-> clock \div TicksPerSecond,
                                    mkdir   |-> r])
           /\ IF r = "error"
              THEN /\ Exit(1)
                   /\ UNCHANGED <<dirs, output_dir, stack>>
              ELSE /\ dirs' = dirs \cup {Resolve(out)}
                   /\ output_dir' = out
                   /\ stack' = <<source_path>>
                   /\ pc' = "recreate_directory_structure"
                   /\ exit_status' = exit_status
    /\ UNCHANGED <<files, argv, cwd, clock, dirpath, filenames, total_videos,
                   successful_conversions, log, outcome, made, pre_dirs>>

(* recreate_directory_structure, lines 52-60: one turn of the loop over    *)
(* os.walk.  os.walk lists a directory when it reaches it, hands it to the *)
(* loop body, and then pushes the subdirectories it listed.                *)
RecreateStep(oserr) ==
    /\ pc = "recreate_directory_structure"
    /\ stack # <<>>
    /\ LET top      == Head(stack)
           rel_path == relative_to(top, source_path)
           target   == DivPath(output_dir, rel_path)
           r        == IF rel_path.parts # <<>> THEN mkdir(target, oserr) ELSE "skip"
       IN  IF r = "error"
           THEN /\ Exit(1)
                /\ UNCHANGED <<dirs, stack, made>>
           ELSE \E order \in Orders(ScanDirs(top)) :
                    /\ dirs' = IF r = "created" THEN dirs \cup {Resolve(target)} ELSE dirs
                    /\ made' = IF r = "created" THEN made + 1 ELSE made
                    /\ stack' = Push(top, order, Tail(stack))
                    /\ UNCHANGED <<pc, exit_status>>
    /\ UNCHANGED <<files, argv, cwd, clock, output_dir, dirpath, filenames, total_videos,
                   successful_conversions, log, outcome, pre_dirs, runs>>

(* main, lines 148-151: recreate_directory_structure returns and           *)
(* process_videos starts its own walk.                                     *)
RecreateDone ==
    /\ pc = "recreate_directory_structure"
    /\ stack = <<>>
    /\ pc' = "process_videos"
    /\ stack' = <<source_path>>
    /\ total_videos' = 0
    /\ successful_conversions' = 0
    /\ UNCHANGED <<dirs, files, argv, cwd, clock, exit_status, output_dir, dirpath,
                   filenames, log, outcome, made, pre_dirs, runs>>

(* process_videos, lines 106-108: os.walk yields the next directory *)
ProcessDir ==
    /\ pc = "process_videos"
    /\ filenames = {}
    /\ stack # <<>>
    /\ \E order \in Orders(ScanDirs(Head(stack))) :
           stack' = Push(Head(stack), order, Tail(stack))
    /\ dirpath' = Head(stack)
    /\ filenames' = ScanFiles(Head(stack))
    /\ UNCHANGED <<dirs, files, argv, cwd, clock, pc, exit_status, output_dir,
                   total_videos, successful_conversions, log, outcome, made,
                   pre_dirs, runs>>

(* What subprocess.run can do: return with exit status zero, return with   *)
(* a non-zero status (ffmpeg having written nothing, or part of the audio  *)
(* file), fail to spawn ffmpeg (FileNotFoundError), or raise another       *)
(* exception.                                                              *)
Outcomes == {"exit0", "exit1", "exit1_partial", "FileNotFoundError", "OSError"}

Writes(o) == o \in {"exit0", "exit1_partial"}

(* without the try/except of lines 68 and 94-96 *)
convert_video_to_audio_NoExcept(o) ==
    IF o \in {"FileNotFoundError", "OSError"} THEN "raise"
    ELSE IF o # "exit0" THEN "False"
    ELSE "True"

(* without the returncode test of lines 87-89 *)
convert_video_to_audio_NoStatus(o) ==
    IF o \in {"FileNotFoundError", "OSError"} THEN "False"
    ELSE "True"

(* convert_video_to_audio, lines 68-96: "True", "False", or "raise" when   *)
(* an exception leaves the function.                                       *)
convert_video_to_audio(o) ==
    IF o \in {"FileNotFoundError", "OSError"} THEN "False"
    ELSE IF o # "exit0" THEN "False"
    ELSE "True"

(* without the .lower() of line 112 *)
IsVideo_NoLower(fn) == suffix(fn) \in VIDEO_EXTENSIONS

IsVideo(fn) == lower(suffix(fn)) \in VIDEO_EXTENSIONS

(* the name cut at its first dot instead of its last *)
audio_filename_FirstDot(fn) == <<fn[1], "mp3">>

audio_filename(fn) == Append(stem(fn), "mp3")

AudioPath(dp, fn) ==
    [dir  |-> DivPath(output_dir, relative_to(dp, source_path)),
     name |-> audio_filename(fn)]

OnDisk(f) == [dir |-> Resolve(f.dir), name |-> f.name]

(* process_videos, lines 110-123: one turn of the loop over filenames.     *)
(* ffmpeg can only write the audio file into a directory that exists.      *)
ProcessFile(o) ==
    /\ pc = "process_videos"
    /\ \E fn \in filenames :
        /\ filenames' = filenames \ {fn}
        /\ IF ~IsVideo(fn)
           THEN UNCHANGED <<files, pc, exit_status, total_videos,
                            successful_conversions, log, outcome>>
           ELSE LET video_path == [dir |-> dirpath, name |-> fn]
                    audio_path == AudioPath(dirpath, fn)
                    ret        == convert_video_to_audio(o)
                IN  /\ Writes(o) => isdir(audio_path.dir)
                    /\ total_videos' = total_videos + 1
                    /\ outcome' = o
                    /\ files' = IF Writes(o) THEN files \cup {OnDisk(audio_path)}
                                ELSE files
                    /\ IF ret = "raise"
                       THEN /\ Exit(1)
                            /\ UNCHANGED <<successful_conversions, log>>
                       ELSE /\ log' = Append(log, [video_path |-> video_path,
                                                   audio_path |-> audio_path,
                                                   ok         |-> ret = "True"])
                            /\ successful_conversions' =
                                   IF ret = "True" THEN successful_conversions + 1
                                   ELSE successful_conversions
                            /\ UNCHANGED <<pc, exit_status>>
    /\ UNCHANGED <<dirs, argv, cwd, clock, output_dir, stack, dirpath, made, pre_dirs, runs>>

(* the exit status made to tell of failed conversions *)
ProcessDone_Strict ==
    /\ pc = "process_videos"
    /\ filenames = {}
    /\ stack = <<>>
    /\ Exit(IF successful_conversions < total_videos THEN 1 ELSE 0)
    /\ UNCHANGED <<dirs, files, argv, cwd, clock, output_dir, stack, dirpath, filenames,
                   total_videos, successful_conversions, log, outcome, made,
                   pre_dirs, runs>>

(* process_videos returns, main logs completion and the process ends: 0 *)
ProcessDone ==
    /\ pc = "process_videos"
    /\ filenames = {}
    /\ stack = <<>>
    /\ Exit(0)
    /\ UNCHANGED <<dirs, files, argv, cwd, clock, output_dir, stack, dirpath, filenames,
                   total_videos, successful_conversions, log, outcome, made,
                   pre_dirs, runs>>

Next ==
    \/ Main
    \/ \E oserr \in BOOLEAN : CreateOutputDirectory(oserr)
    \/ \E oserr \in BOOLEAN : RecreateStep(oserr)
    \/ RecreateDone
    \/ ProcessDir
    \/ \E o \in Outcomes : ProcessFile(o)
    \/ ProcessDone

Spec == Init /\ [][Next]_vars

(* The program started again on the disk the last run left, with the same  *)
(* command line, at the same or a later time.                              *)
Rerun(now) ==
    /\ pc = "exit"
    /\ Len(runs) < MaxRuns
    /\ now \in clock..MaxClock
    /\ clock' = now
    /\ pc' = "main"
    /\ exit_status' = -1
    /\ output_dir' = NoPath
    /\ stack' = <<>>
    /\ dirpath' = NoPath
    /\ filenames' = {}
    /\ total_videos' = 0
    /\ successful_conversions' = 0
    /\ log' = <<>>
    /\ outcome' = "none"
    /\ made' = 0
    /\ pre_dirs' = dirs
    /\ UNCHANGED <<dirs, files, argv, cwd, runs>>

NextRuns == Next \/ \E now \in 0..MaxClock : Rerun(now)

SpecRuns == InitRuns /\ [][NextRuns]_vars

----------------------------------------------------------------------------
(* Vocabulary of the properties *)

IsUnder(d, root) == Len(d) >= Len(root) /\ SubSeq(d, 1, Len(root)) = root

ProperUnder(d, root) == IsUnder(d, root) /\ d # root

Rel(d, root) == SubSeq(d, Len(root) + 1, Len(d))

SourceRoot == Resolve(source_path)

OutputRoot == Resolve(output_dir)

Subdirs(root) == {Rel(d, root) : d \in {e \in dirs : ProperUnder(e, root)}}

Last(s) == s[Len(s)]

Done == pc = "exit" /\ exit_status = 0

Attempts(f) == {i \in DOMAIN log : OnDisk(log[i].video_path) = f}

SourceFiles == {f \in files : IsUnder(f.dir, SourceRoot)}

(* The spellings, among the extensions of the model's file names, of the   *)
(* seven listed extensions in any letter case.                             *)
AllowedSpellings ==
    { "mp4", "MP4", "Mp4", "avi", "AVI", "mov", "MOV", "mkv", "MKV", "flv", "FLV",
      "wmv", "WMV", "webm", "WEBM", "WebM" }

(* A name with an extension (text after a last dot that is neither the     *)
(* first nor the last character) that is one of the allowed spellings.     *)
AllowListed(n) ==
    /\ Len(n) >= 2
    /\ n[Len(n)] \in AllowedSpellings
    /\ (Len(n) > 2 \/ n[1] # "")

BadArguments == Len(argv) # 2 \/ Resolve(Path(argv[Len(argv)])) \notin pre_dirs

----------------------------------------------------------------------------
(* C1: whenever process_videos is running (so at every conversion          *)
(* attempt), recreate_directory_structure has finished, every directory    *)
(* under the source root has a directory with the same relative path under *)
(* the output root, and the parent directory of the audio path of every    *)
(* file still to be converted exists.                                      *)
C1_MirroredBeforeConversion ==
    pc = "process_videos" =>
        /\ \A d \in dirs : ProperUnder(d, SourceRoot) =>
               OutputRoot \o Rel(d, SourceRoot) \in dirs
        /\ \A fn \in filenames : IsVideo(fn) => isdir(AudioPath(dirpath, fn).dir)

(* C1, the part that holds for every command line: every destination's     *)
(* parent directory exists when its conversion is attempted.               *)
C1_DestinationParentExists ==
    pc = "process_videos" =>
        \A fn \in filenames : IsVideo(fn) => isdir(AudioPath(dirpath, fn).dir)

(* C2: every call of create_output_directory that returns has made a       *)
(* directory that did not exist before, different from the output root of  *)
(* every earlier run.                                                      *)
C2_AlwaysFreshOutputRoot ==
    \A j \in DOMAIN runs : runs[j].mkdir # "error" =>
        /\ runs[j].mkdir = "created"
        /\ \A i \in 1..(j - 1) : runs[i].mkdir # "error" => runs[i].root # runs[j].root

SameStamp(i, j) ==
    /\ runs[i].mkdir # "error"
    /\ runs[i].stamped
    /\ runs[j].stamped
    /\ runs[i].second = runs[j].second

(* C2 as amended: a later run's output root is new and differs from every  *)
(* earlier run's, unless an earlier run also found "<name>_audio" present  *)
(* and read the same clock second; then create_output_directory returns    *)
(* that run's directory again, which exists already.                       *)
C2_FreshUnlessSameSecond ==
    \A j \in DOMAIN runs : runs[j].mkdir # "error" =>
        IF \E i \in 1..(j - 1) : SameStamp(i, j)
        THEN /\ runs[j].mkdir = "exists"
             /\ \A i \in 1..(j - 1) : SameStamp(i, j) => runs[i].root = runs[j].root
        ELSE /\ runs[j].mkdir = "created"
             /\ \A i \in 1..(j - 1) : runs[i].mkdir # "error" => runs[i].root # runs[j].root

C2_Witness ==
    /\ Len(runs) = 2
    /\ SameStamp(1, 2)
    /\ runs[2].root = runs[1].root
    /\ pc = "exit"
    /\ exit_status = 0

(* C3: every candidate counts in total_videos, only the conversions that   *)
(* reported success count in successful_conversions, no failed conversion  *)
(* ends the process, and when process_videos returns every video file of   *)
(* the source tree has been attempted.                                     *)
C3_FailureDoesNotStopTheWalk ==
    /\ total_videos = Len(log)
    /\ successful_conversions = Cardinality({i \in DOMAIN log : log[i].ok})
    /\ exit_status = 1 => log = <<>>
    /\ Done => \A f \in SourceFiles : IsVideo(f.name) => Attempts(f) # {}

C3_Witness ==
    /\ Done
    /\ Len(log) = 2
    /\ ~log[1].ok
    /\ log[2].ok
    /\ total_videos = 2
    /\ successful_conversions = 1

(* C4: no file is handed to the extractor twice, only files with an        *)
(* allow-listed extension (in any letter case) are handed to it, every     *)
(* file in the output tree is the destination of one of these calls, and   *)
(* when process_videos returns each allow-listed file of the source tree   *)
(* has been handed to it and total_videos is their number.                 *)
C4_OncePerAllowListedFile ==
    /\ \A i, j \in DOMAIN log : log[i].video_path = log[j].video_path => i = j
    /\ \A i \in DOMAIN log : AllowListed(log[i].video_path.name)
    /\ \A f \in files : output_dir # NoPath /\ IsUnder(f.dir, OutputRoot) =>
           \E i \in DOMAIN log : OnDisk(log[i].audio_path) = f
    /\ Done =>
        /\ \A f \in SourceFiles : AllowListed(f.name) => Cardinality(Attempts(f)) = 1
        /\ total_videos = Cardinality({f \in SourceFiles : AllowListed(f.name)})

C4_Witness ==
    /\ Done
    /\ \E f \in SourceFiles : f.name = <<"x", "MKV">> /\ Cardinality(Attempts(f)) = 1
    /\ \E f \in SourceFiles : f.name = <<"note", "txt">> /\ Attempts(f) = {}
    /\ total_videos = 1

C4_WitnessUpperCase ==
    /\ Done
    /\ \E f \in SourceFiles : f.name = <<"v", "WEBM">> /\ Cardinality(Attempts(f)) = 1

(* C5: two conversions of a run never have the same destination, and when  *)
(* every conversion of a finished run succeeded the output tree holds      *)
(* total_videos files.                                                     *)
C5_DistinctDestinations ==
    /\ \A i, j \in DOMAIN log :
           OnDisk(log[i].audio_path) = OnDisk(log[j].audio_path) => i = j
    /\ (Done /\ \A i \in DOMAIN log : log[i].ok) =>
           Cardinality({f \in files : IsUnder(f.dir, OutputRoot)}) = total_videos

(* C6: a process that has ended has status 1, has made no directory and    *)
(* attempted no conversion if the arguments were bad; has a non-zero       *)
(* status if creating the output root or mirroring a directory failed; and *)
(* has status 0 otherwise, whatever the conversions did.                   *)
C6_ExitStatus ==
    pc = "exit" =>
        /\ BadArguments =>
               /\ exit_status = 1
               /\ dirs = pre_dirs
               /\ runs = <<>>
               /\ log = <<>>
               /\ outcome = "none"
        /\ (runs # <<>> /\ Last(runs).mkdir = "error") => exit_status # 0
        /\ stack # <<>> => exit_status # 0
        /\ (~BadArguments /\ runs # <<>> /\ Last(runs).mkdir # "error" /\ stack = <<>>) =>
               exit_status = 0

C6_Witness ==
    /\ Done
    /\ Len(log) = 2
    /\ \A i \in DOMAIN log : ~log[i].ok
    /\ outcome = "FileNotFoundError"

C6_WitnessBadArguments == pc = "exit" /\ BadArguments /\ Len(argv) = 2

C6_WitnessMirrorFailed == pc = "exit" /\ stack # <<>> /\ made > 0

(* C7: once recreate_directory_structure has returned, the relative paths  *)
(* of the directories under the output root are exactly the relative paths *)
(* of the directories under the source root.                               *)
C7_SameSubdirectories ==
    pc = "process_videos" => Subdirs(OutputRoot) = Subdirs(SourceRoot)

(* C7 for the command lines that put the output root outside the source *)
C7_SameSubdirectoriesOutside ==
    (pc = "process_videos" /\ ~IsUnder(OutputRoot, SourceRoot)) =>
        Subdirs(OutputRoot) = Subdirs(SourceRoot)

(* C8: a call of convert_video_to_audio has returned True exactly when     *)
(* ffmpeg was spawned and exited with status zero, and no call has ended   *)
(* the process.                                                            *)
C8_TrueIffExitZero ==
    /\ outcome # "none" => (log # <<>> /\ (Last(log).ok <=> outcome = "exit0"))
    /\ exit_status = 1 => outcome = "none"

C8_Witness ==
    /\ pc = "process_videos"
    /\ outcome = "OSError"
    /\ Len(log) = 2
    /\ log[1].ok
    /\ ~log[2].ok

(* C9: the audio path of every conversion is the output root, then the     *)
(* video's directory relative to the source root, then the video's name    *)
(* with the text after its last dot replaced by mp3; movie.final.mkv in    *)
(* a/b of proj goes to a/b/movie.final.mp3 of proj_audio.                  *)
C9_DestinationPath ==
    \A i \in DOMAIN log :
        LET v == log[i].video_path
            a == log[i].audio_path
        IN  /\ Resolve(a.dir) = OutputRoot \o Rel(Resolve(v.dir), SourceRoot)
            /\ a.name = SubSeq(v.name, 1, Len(v.name) - 1) \o <<"mp3">>
            /\ (/\ source_dir = "proj"
                /\ OnDisk(v) = [dir |-> <<"w", "proj", "a", "b">>,
                                name |-> <<"movie", "final", "mkv">>])
               => OnDisk(a) = [dir |-> <<"w", "proj_audio", "a", "b">>,
                               name |-> <<"movie", "final", "mp3">>]

C9_Witness ==
    /\ argv = <<"video_to_audio.py", "proj">>
    /\ \E i \in DOMAIN log :
           /\ OnDisk(log[i].video_path) = [dir |-> <<"w", "proj", "a", "b">>,
                                           name |-> <<"movie", "final", "mkv">>]
           /\ log[i].ok
           /\ OnDisk(log[i].audio_path) \in files

(* C10: the output root is not inside the source tree, and               *)
(* recreate_directory_structure makes at most one directory for each       *)
(* directory the source tree had when the run started.                     *)
C10_OutputOutsideSource ==
    output_dir # NoPath =>
        /\ ~IsUnder(OutputRoot, SourceRoot)
        /\ made <= Cardinality({d \in pre_dirs : ProperUnder(d, SourceRoot)})

====
